---- MODULE Spec2Model ----
(***************************************************************************)
(* Model of src/app.py: the /mix-audio request handler mix_audio and the   *)
(* audio-program composition it performs.                                  *)
(*                                                                         *)
(* An AudioSegment is a sequence with one element per millisecond; each    *)
(* element is the set of sources audible in that millisecond ("voice",     *)
(* "bg", "intro", "outro", "gap_before", "gap_after").  len() of a segment *)
(* is the length of the sequence.  Gain changes (lines 260-266) alter no   *)
(* duration and no source set and are therefore not represented.           *)
(***************************************************************************)
EXTENDS Integers, Sequences, FiniteSets, TLC

\* ------------------------------------------------------------------ bounds
MaxVoice == 3    \* decoded voice durations are 0..MaxVoice
MaxBg    == 2    \* decoded background durations are 0..MaxBg
MaxClip  == 2    \* decoded intro / outro durations are 0..MaxClip
MaxGap   == 1    \* gap_before_ms / gap_after_ms are -1..MaxGap
MaxCf    == 2    \* crossfade_intro_ms / crossfade_outro_ms are -1..MaxCf

\* --------------------------------------------------------------- constants
None   == "None"
Absent == "<absent>"     \* the key is not in the request's JSON object

BEGINNING_AUDIO_URL  == "https://drive.google.com/file/d/intro"
ENDING_AUDIO_URL     == "https://drive.google.com/file/d/outro"
CallerUrl            == "https://caller.example/audio"

voice_file     == "voice.bin"
bg_music_file  == "background.bin"
beginning_file == "beginning.bin"
ending_file    == "ending.bin"
output_file    == "mixed.out"

VARIABLES
  pc,                  \* position of the handler
  data,                \* request.get_json(): "none", "empty" ({}) or "dict"
  voice_audio_url,     \* data.get('voice_audio_url'): None, "" or a URL
  beginning_audio_url, \* after _normalize_optional_url: None or a URL
  ending_audio_url,
  gap_before_ms, gap_after_ms, crossfade_intro_ms, crossfade_outro_ms,
  made_temp_dir,       \* tempfile.mkdtemp() has been called
  temp_dir,            \* the temp directory exists on disk
  files,               \* the files that exist in the temp directory
  created_files,       \* the list created_files
  steps,               \* the pipeline steps attempted, in order
  failed,              \* the step that failed, or None
  response,            \* [status, body, error]; status 0: no response yet
  voice, background, beginning, ending,   \* decoded segments
  tiled, loops_needed, fitted,            \* background fit
  mixed,               \* the main mix
  cf_intro, program_intro,                \* after the intro block
  cf_outro, program                       \* after the outro block

vars == << pc, data, voice_audio_url, beginning_audio_url, ending_audio_url,
           gap_before_ms, gap_after_ms, crossfade_intro_ms, crossfade_outro_ms,
           made_temp_dir, temp_dir, files, created_files, steps, failed,
           response, voice, background, beginning, ending, tiled,
           loops_needed, fitted, mixed, cf_intro, program_intro, cf_outro,
           program >>

reqVars  == << data, voice_audio_url, beginning_audio_url, ending_audio_url,
               gap_before_ms, gap_after_ms, crossfade_intro_ms,
               crossfade_outro_ms >>
segVars  == << voice, background, beginning, ending >>
compVars == << tiled, loops_needed, fitted, mixed, cf_intro, program_intro,
               cf_outro, program >>

\* ----------------------------------------------------------------- helpers
Min(a, b) == IF a < b THEN a ELSE b
Max(a, b) == IF a > b THEN a ELSE b
Range(s)  == { s[i] : i \in 1..Len(s) }

\* A decoded clip of n milliseconds from one source.
Clip(src, n) == [i \in 1..n |-> {src}]

\* An optional segment: `beginning = None` against a decoded segment.
NoSeg     == [some |-> FALSE, seg |-> << >>]
Some(s)   == [some |-> TRUE, seg |-> s]

\* AudioSegment.silent(duration=ms): no frames for a duration <= 0.
Silent(src, ms) == Clip(src, Max(0, ms))

\* seg[:ms]
SliceTo(seg, ms) == SubSeq(seg, 1, Min(Max(0, ms), Len(seg)))

\* seg * n
RECURSIVE Repeat(_, _)
Repeat(seg, n) == IF n <= 0 THEN << >> ELSE seg \o Repeat(seg, n - 1)

\* base.overlay(other): the base determines the length.
Overlay(base, other) ==
  [i \in 1..Len(base) |-> IF i <= Len(other) THEN base[i] \cup other[i]
                                             ELSE base[i]]

\* a.append(b, crossfade=cf) raises ValueError when cf exceeds either length.
AppendRaises(a, b, cf) == cf > Len(a) \/ cf > Len(b)

\* a.append(b, crossfade=cf): the last cf ms of a overlap the first cf of b.
CrossAppend(a, b, cf) ==
  SubSeq(a, 1, Len(a) - cf)
    \o [i \in 1..cf |-> a[Len(a) - cf + i] \cup b[i]]
    \o SubSeq(b, cf + 1, Len(b))

\* -------------------------------------------------------- request parsing
\* data.get(key, default)
Get(field, default) == IF field = Absent THEN default ELSE field

\* str(url).strip()
Strip(s) == IF s = " " THEN "" ELSE s

\* _normalize_optional_url
_normalize_optional_url(url) ==
  IF url = None THEN None
  ELSE LET s == Strip(url) IN IF s # "" THEN s ELSE None

\* Mutant: the check `if voice_audio_url is None`, which lets "" through.
MissingVoiceUrl_OnlyNone(u) == u = None

\* `if not voice_audio_url`
MissingVoiceUrl(u) == u = None \/ u = ""

\* `return jsonify({"error": msg}), status`
ErrorResponse(msg, status) ==
  [status |-> status, body |-> "json_error", error |-> msg]

NoResponse == [status |-> 0, body |-> "none", error |-> ""]

Init ==
  /\ pc = "request"
  /\ data = "none"
  /\ voice_audio_url = None
  /\ beginning_audio_url = None
  /\ ending_audio_url = None
  /\ gap_before_ms = 0 /\ gap_after_ms = 0
  /\ crossfade_intro_ms = 0 /\ crossfade_outro_ms = 0
  /\ made_temp_dir = FALSE
  /\ temp_dir = FALSE
  /\ files = {}
  /\ created_files = << >>
  /\ steps = << >>
  /\ failed = None
  /\ response = NoResponse
  /\ voice = << >> /\ background = << >>
  /\ beginning = NoSeg /\ ending = NoSeg
  /\ tiled = FALSE /\ loops_needed = 0 /\ fitted = << >>
  /\ mixed = << >>
  /\ cf_intro = -1 /\ program_intro = << >>
  /\ cf_outro = -1 /\ program = << >>

\* ------------------------------------------------------------ the handler
UrlFields  == { Absent, None, "", " ", CallerUrl }
GapValues  == -1..MaxGap
CfValues   == -1..MaxCf

\* Lines 180-228: read and validate the request, parse the parameters and
\* create the temp workspace.  `bad` is a gap or crossfade value that int()
\* rejects (ValueError, caught by the outer handler at lines 362-364).
Receive ==
  /\ pc = "request"
  /\ \E d \in {"none", "empty", "dict"}, v \in UrlFields \ {" "},
        bf \in UrlFields, ef \in UrlFields,
        gb \in GapValues, ga \in GapValues,
        ci \in CfValues, co \in CfValues, bad \in BOOLEAN :
       /\ data' = d
       /\ IF d # "dict"
          THEN /\ response' = ErrorResponse("No JSON data provided", 400)
               /\ pc' = "done"
               /\ UNCHANGED << voice_audio_url, beginning_audio_url,
                               ending_audio_url, gap_before_ms, gap_after_ms,
                               crossfade_intro_ms, crossfade_outro_ms,
                               made_temp_dir, temp_dir >>
          ELSE /\ voice_audio_url' = Get(v, None)
               /\ IF MissingVoiceUrl(voice_audio_url')
                  THEN /\ response' =
                            ErrorResponse("voice_audio_url is required", 400)
                       /\ pc' = "done"
                       /\ UNCHANGED << beginning_audio_url, ending_audio_url,
                                       gap_before_ms, gap_after_ms,
                                       crossfade_intro_ms, crossfade_outro_ms,
                                       made_temp_dir, temp_dir >>
                  ELSE /\ beginning_audio_url' =
                            _normalize_optional_url(Get(bf, BEGINNING_AUDIO_URL))
                       /\ ending_audio_url' =
                            _normalize_optional_url(Get(ef, ENDING_AUDIO_URL))
                       /\ IF bad
                          THEN /\ response' =
                                    ErrorResponse("Internal server error", 500)
                               /\ pc' = "done"
                               /\ UNCHANGED << gap_before_ms, gap_after_ms,
                                               crossfade_intro_ms,
                                               crossfade_outro_ms,
                                               made_temp_dir, temp_dir >>
                          ELSE /\ gap_before_ms' = gb
                               /\ gap_after_ms' = ga
                               /\ crossfade_intro_ms' = ci
                               /\ crossfade_outro_ms' = co
                               /\ made_temp_dir' = TRUE
                               /\ temp_dir' = TRUE
                               /\ response' = response
                               /\ pc' = "dl_voice"
  /\ UNCHANGED << files, created_files, steps, failed, segVars, compVars >>

\* download_from_gdrive / download_from_url (lines 54-130), as _download_any
\* sees them: "ok" wrote the file and returned True; "fail" returned False
\* with nothing written (non-200 status, request error); "partial" returned
\* False after open(output_path, 'wb') had created the file and the body
\* stream raised (lines 96-99 / 118-121, caught at 106 / 128).
DownloadOutcomes == {"ok", "fail", "partial"}

\* Mutant: a download step whose failure is noted but does not return.
Download_NoReturn(step, file, msg, status, nextpc) ==
  \E r \in DownloadOutcomes :
    /\ steps' = Append(steps, step)
    /\ files' = IF r = "fail" THEN files ELSE files \cup {file}
    /\ created_files' = IF r = "ok" THEN Append(created_files, file)
                                    ELSE created_files
    /\ failed' = IF r = "ok" \/ failed # None THEN failed ELSE step
    /\ pc' = nextpc
    /\ UNCHANGED << response, temp_dir, made_temp_dir, reqVars, segVars,
                    compVars >>

\* One download step of lines 231-250:
\*   if not _download_any(url, file): return jsonify({"error": msg}), status
\*   created_files.append(file)
Download(step, file, msg, status, nextpc) ==
  \E r \in DownloadOutcomes :
    /\ steps' = Append(steps, step)
    /\ files' = IF r = "fail" THEN files ELSE files \cup {file}
    /\ IF r = "ok"
       THEN /\ created_files' = Append(created_files, file)
            /\ pc' = nextpc
            /\ UNCHANGED << failed, response >>
       ELSE /\ failed' = step
            /\ response' = ErrorResponse(msg, status)
            /\ pc' = "done"
            /\ UNCHANGED created_files
    /\ UNCHANGED << temp_dir, made_temp_dir, reqVars, segVars, compVars >>

\* Lines 232-234.
DownloadVoice ==
  /\ pc = "dl_voice"
  /\ Download("download_voice", voice_file,
              "Failed to download voice audio", 400, "dl_bg")

\* Lines 236-238.
DownloadBackground ==
  /\ pc = "dl_bg"
  /\ Download("download_background", bg_music_file,
              "Failed to download background music", 500, "dl_intro")

\* Lines 240-244.
DownloadIntro ==
  /\ pc = "dl_intro"
  /\ \/ /\ beginning_audio_url # None
        /\ Download("download_intro", beginning_file,
                    "Failed to download beginning (intro) audio", 400,
                    "dl_outro")
     \/ /\ beginning_audio_url = None
        /\ pc' = "dl_outro"
        /\ UNCHANGED << reqVars, made_temp_dir, temp_dir, files,
                        created_files, steps, failed, response, segVars,
                        compVars >>

\* Lines 246-250.
DownloadOutro ==
  /\ pc = "dl_outro"
  /\ \/ /\ ending_audio_url # None
        /\ Download("download_outro", ending_file,
                    "Failed to download ending (outro) audio", 400, "decode")
     \/ /\ ending_audio_url = None
        /\ pc' = "decode"
        /\ UNCHANGED << reqVars, made_temp_dir, temp_dir, files,
                        created_files, steps, failed, response, segVars,
                        compVars >>

\* Lines 346-360: the inner exception handler.  exc is str(e), the detail of
\* the "Processing error" message; on_disk is the directory's content when
\* the exception is raised.  Every file of created_files is
\* removed; os.rmdir succeeds only on an empty directory and its failure is
\* swallowed.
ExceptCleanup(step, exc, on_disk) ==
  /\ files' = on_disk \ Range(created_files)
  /\ temp_dir' = (files' # {})
  /\ failed' = step
  /\ response' = ErrorResponse(exc, 500)
  /\ pc' = "done"
  /\ UNCHANGED << created_files, made_temp_dir >>

\* Lines 252-258: AudioSegment.from_file for each downloaded file; a codec
\* failure raises.
Decode ==
  /\ pc = "decode"
  /\ steps' = Append(steps, "decode")
  /\ \/ /\ ExceptCleanup("decode", "CouldntDecodeError", files)
        /\ UNCHANGED segVars
     \/ /\ \E v \in 0..MaxVoice, b \in 0..MaxBg :
             /\ voice' = Clip("voice", v)
             /\ background' = Clip("bg", b)
        /\ IF beginning_audio_url # None
           THEN \E i \in 0..MaxClip : beginning' = Some(Clip("intro", i))
           ELSE beginning' = NoSeg
        /\ IF ending_audio_url # None
           THEN \E o \in 0..MaxClip : ending' = Some(Clip("outro", o))
           ELSE ending' = NoSeg
        /\ pc' = "compose"
        /\ UNCHANGED << files, temp_dir, created_files, made_temp_dir,
                        failed, response >>
  /\ UNCHANGED << reqVars, compVars >>

\* ------------------------------------------------------------ composition
\* Mutant: the ceiling of len(voice) / len(background).
LoopsNeeded_Ceil(v, b) == (v + b - 1) \div b

\* Line 270: loops_needed = len(voice) // len(background) + 1
LoopsNeeded(v, b) == (v \div b) + 1

\* Line 269: the background is tiled only when shorter than the voice.
NeedsTiling(v, b) == b < v

\* Line 270 divides by len(background): ZeroDivisionError when it is 0.
FitRaises(v, b) == NeedsTiling(v, b) /\ b = 0

\* Lines 269-272: loop and trim the background to the voice's duration.
FitBackground(bg, v) ==
  SliceTo(IF NeedsTiling(Len(v), Len(bg))
          THEN Repeat(bg, LoopsNeeded(Len(v), Len(bg)))
          ELSE bg,
          Len(v))

\* Line 275: mixed = voice.overlay(background)
MainMix(v, bg) == Overlay(v, bg)

\* Mutant: the clamp without the "- 1" margins.
CfClamp_NoMargin(c, d1, d2) == Max(0, Min(c, Min(d1, d2)))

\* Lines 283 and 299: max(0, min(crossfade_ms, len(a) - 1, len(b) - 1))
CfClamp(c, d1, d2) == Max(0, Min(c, Min(d1 - 1, d2 - 1)))

\* Lines 284-287 and 300-303: crossfaded append when cf > 0, else a + b.
Join(a, b, cf) == IF cf > 0 THEN CrossAppend(a, b, cf) ELSE a \o b

JoinRaises(a, b, cf) == cf > 0 /\ AppendRaises(a, b, cf)

\* Line 283: the effective intro crossfade, -1 when the branch is not taken.
IntroCf(beg, prog, cfi) ==
  IF beg.some /\ cfi > 0 THEN CfClamp(cfi, Len(beg.seg), Len(prog)) ELSE -1

\* Mutant: the hard cut with a gap forgets to append the program.
IntroCompose_DropsProgram(beg, prog, cfi, gb) ==
  IF ~beg.some THEN prog
  ELSE IF cfi > 0
       THEN Join(beg.seg, prog, IntroCf(beg, prog, cfi))
       ELSE IF gb > 0
            THEN beg.seg \o Silent("gap_before", gb)
            ELSE beg.seg \o prog

\* Mutant: a crossfade clamped to 0 falls back to the hard cut with its gap.
IntroCompose_GapOnFallback(beg, prog, cfi, gb) ==
  IF ~beg.some THEN prog
  ELSE IF cfi > 0 /\ IntroCf(beg, prog, cfi) > 0
       THEN Join(beg.seg, prog, IntroCf(beg, prog, cfi))
       ELSE IF gb > 0
            THEN beg.seg \o Silent("gap_before", gb) \o prog
            ELSE beg.seg \o prog

\* Lines 280-293: the intro block.
IntroCompose(beg, prog, cfi, gb) ==
  IF ~beg.some THEN prog
  ELSE IF cfi > 0
       THEN Join(beg.seg, prog, IntroCf(beg, prog, cfi))
       ELSE IF gb > 0
            THEN beg.seg \o Silent("gap_before", gb) \o prog
            ELSE beg.seg \o prog

\* Line 299: the effective outro crossfade, -1 when the branch is not taken.
OutroCf(prog, end, cfo) ==
  IF end.some /\ cfo > 0 THEN CfClamp(cfo, Len(prog), Len(end.seg)) ELSE -1

\* Mutant: the gap_after silence is appended before the crossfade into the
\* outro, so the crossfade fades the silence.
OutroCompose_GapInCrossfade(prog, end, cfo, ga) ==
  IF ~end.some THEN prog
  ELSE LET gapped == IF ga > 0 THEN prog \o Silent("gap_after", ga) ELSE prog
       IN  IF cfo > 0
           THEN Join(gapped, end.seg, CfClamp(cfo, Len(gapped), Len(end.seg)))
           ELSE gapped \o end.seg

\* Lines 295-311: the outro block.
OutroCompose(prog, end, cfo, ga) ==
  IF ~end.some THEN prog
  ELSE IF cfo > 0
       THEN LET joined == Join(prog, end.seg, OutroCf(prog, end, cfo))
            IN  IF ga > 0 THEN joined \o Silent("gap_after", ga) ELSE joined
       ELSE LET gapped == IF ga > 0 THEN prog \o Silent("gap_after", ga)
                                    ELSE prog
            IN  gapped \o end.seg

\* The exception lines 268-313 raise, or None: the division of line 270,
\* or the ValueError of AudioSegment.append.
ComposeError ==
  IF FitRaises(Len(voice), Len(background)) THEN "ZeroDivisionError"
  ELSE LET mx == MainMix(voice, FitBackground(background, voice))
           pi == IntroCompose(beginning, mx, crossfade_intro_ms, gap_before_ms)
       IN  IF beginning.some /\ crossfade_intro_ms > 0
              /\ JoinRaises(beginning.seg, mx,
                            IntroCf(beginning, mx, crossfade_intro_ms))
           THEN "ValueError"
           ELSE IF ending.some /\ crossfade_outro_ms > 0
                   /\ JoinRaises(pi, ending.seg,
                                 OutroCf(pi, ending, crossfade_outro_ms))
                THEN "ValueError"
                ELSE None

\* Lines 260-313: levels, background fit, main mix, intro and outro.
Compose ==
  /\ pc = "compose"
  /\ steps' = Append(steps, "compose")
  /\ \/ /\ ComposeError # None
        /\ ExceptCleanup("compose", ComposeError, files)
        /\ UNCHANGED compVars
     \/ /\ ComposeError = None
        /\ tiled' = NeedsTiling(Len(voice), Len(background))
        /\ loops_needed' = IF tiled' THEN LoopsNeeded(Len(voice), Len(background))
                                     ELSE 0
        /\ fitted' = FitBackground(background, voice)
        /\ mixed' = MainMix(voice, fitted')
        /\ cf_intro' = IntroCf(beginning, mixed', crossfade_intro_ms)
        /\ program_intro' = IntroCompose(beginning, mixed', crossfade_intro_ms,
                                         gap_before_ms)
        /\ cf_outro' = OutroCf(program_intro', ending, crossfade_outro_ms)
        /\ program' = OutroCompose(program_intro', ending, crossfade_outro_ms,
                                   gap_after_ms)
        /\ pc' = "export"
        /\ UNCHANGED << files, temp_dir, created_files, made_temp_dir,
                        failed, response >>
  /\ UNCHANGED << reqVars, segVars >>

\* final_audio.export (line 320): "ok" wrote output_file; "fail" raised with
\* nothing written; "partial" raised after the output file had been created.
ExportOutcomes == {"ok", "fail", "partial"}

\* Lines 326-335: the cleanup of the success path.
SuccessCleanup(on_disk) ==
  /\ files' = on_disk \ (Range(created_files) \cup {output_file})
  /\ temp_dir' = (files' # {})

\* Lines 339-344: send_file(...)
AudioResponse == [status |-> 200, body |-> "audio", error |-> ""]

\* Lines 315-344: export, read back, clean up, respond.
Export ==
  /\ pc = "export"
  /\ steps' = Append(steps, "export")
  /\ \E r \in ExportOutcomes :
       IF r = "ok"
       THEN /\ SuccessCleanup(files \cup {output_file})
            /\ response' = AudioResponse
            /\ pc' = "done"
            /\ UNCHANGED << created_files, made_temp_dir, failed >>
       ELSE ExceptCleanup("export", "CouldntEncodeError",
                          IF r = "partial" THEN files \cup {output_file}
                                           ELSE files)
  /\ UNCHANGED << reqVars, segVars, compVars >>

Next ==
  \/ Receive
  \/ DownloadVoice
  \/ DownloadBackground
  \/ DownloadIntro
  \/ DownloadOutro
  \/ Decode
  \/ Compose
  \/ Export

Spec == Init /\ [][Next]_vars

\* ------------------------------------------------------------- properties
Finished  == pc = "done"
Attempted(step) == step \in Range(steps)
\* The composition of lines 260-313 ran to its end.
Composed  == Attempted("compose") /\ failed # "compose"

V == Len(voice)
B == Len(background)

\* The samples of seg that carry source src.
Carrying(seg, src) == { i \in 1..Len(seg) : src \in seg[i] }

\* C1: every request that created the temp directory has, when its response
\* is returned, deleted every file it wrote and the directory itself.
C1_CleanupOnEveryExit ==
  (Finished /\ made_temp_dir) => (files = {} /\ ~temp_dir)

CallerSuppliedFailure ==
  \/ failed = "download_voice"
  \/ failed = "download_intro" /\ beginning_audio_url # BEGINNING_AUDIO_URL
  \/ failed = "download_outro" /\ ending_audio_url # ENDING_AUDIO_URL

\* C3: when a pipeline step fails the status is 400 if and only if the
\* failing input was supplied by the caller; a failure of the fixed
\* background, of a built-in intro/outro URL, or of decode, composition or
\* encoding is answered 500.
C3_Status400IffCallerSupplied ==
  failed # None
    => /\ response.status = 400 <=> CallerSuppliedFailure
       /\ ~CallerSuppliedFailure => response.status = 500

StepRank(step) ==
  CASE step = "download_voice"      -> 1
    [] step = "download_background" -> 2
    [] step = "download_intro"      -> 3
    [] step = "download_outro"      -> 4
    [] step = "decode"              -> 5
    [] step = "compose"             -> 6
    [] step = "export"              -> 7

\* The steps a successful request of this configuration performs.
AllSteps ==
  << "download_voice", "download_background" >>
    \o (IF beginning_audio_url # None THEN << "download_intro" >> ELSE << >>)
    \o (IF ending_audio_url # None THEN << "download_outro" >> ELSE << >>)
    \o << "decode", "compose", "export" >>

\* C4: the steps run in the order voice, background, intro, outro, decode,
\* compose, export, each at most once; audio is returned only when all of
\* them ran and none failed; the first failing step is the last step run and
\* the response is then a JSON error.
C4_OrderedStepsNoPartialOutput ==
  /\ \A i, j \in 1..Len(steps) :
       i < j => StepRank(steps[i]) < StepRank(steps[j])
  /\ response.body = "audio"
       => /\ failed = None /\ steps = AllSteps /\ response.status = 200
  /\ failed # None
       => /\ Finished
          /\ steps[Len(steps)] = failed
          /\ response.body = "json_error"
          /\ response.status \in {400, 500}
  /\ (Finished /\ made_temp_dir /\ failed = None) => response.body = "audio"

C4_Witness ==
  /\ response.body = "audio"
  /\ beginning_audio_url # None /\ ending_audio_url # None
  /\ Len(steps) = 7

\* C5: for all voice durations V >= 0 and background durations B >= 0 the
\* background fit completes without error and the fitted background has
\* duration exactly V.
C5_FitAlwaysSucceeds ==
  Attempted("compose")
    => /\ response.error # "ZeroDivisionError"
       /\ Len(fitted) = V

\* The effective crossfade max(0, min(c, d1-1, d2-1)), stated as the largest
\* length of at most c that is strictly inside both segments.
EffectiveCf(c, d1, d2) ==
  LET ok == { k \in 0..c : k < d1 /\ k < d2 }
  IN  IF ok = {} THEN 0 ELSE CHOOSE k \in ok : \A m \in ok : m <= k

\* What C6 says of one join of a (d1 ms) and b (d2 ms) with requested
\* crossfade c > 0, effective crossfade cf and result r.
ClampedJoin(a, b, c, cf, r) ==
  /\ cf = EffectiveCf(c, Len(a), Len(b))
  /\ cf > 0 => (cf < Len(a) /\ cf < Len(b))
  /\ Len(r) = Len(a) + Len(b) - cf
  /\ cf = 0 => r = a \o b

\* C6: a join with a requested crossfade c > 0 never raises and applies
\* cf = max(0, min(c, d1-1, d2-1)): cf is strictly smaller than both
\* durations when positive, the joined duration is d1 + d2 - cf, and cf = 0
\* is plain concatenation.
C6_CrossfadeClamp ==
  /\ response.error # "ValueError"
  /\ (Composed /\ beginning.some /\ crossfade_intro_ms > 0)
       => ClampedJoin(beginning.seg, mixed, crossfade_intro_ms, cf_intro,
                      program_intro)
  /\ (Composed /\ ending.some /\ crossfade_outro_ms > 0)
       => ClampedJoin(program_intro, ending.seg, crossfade_outro_ms, cf_outro,
                      SubSeq(program, 1, Len(program) - Max(0, gap_after_ms)))

C6_Witness ==
  /\ Composed /\ beginning.some /\ ending.some
  /\ cf_intro > 0 /\ cf_intro < crossfade_intro_ms
  /\ crossfade_outro_ms > 0 /\ cf_outro = 0

\* C7: whatever the intro, the outro, the durations, the gaps and the
\* crossfades, the main mix has the voice's duration and the program is at
\* least as long as the main mix.
C7_DurationInvariant ==
  Composed
    => /\ Len(mixed) = V
       /\ \A i \in 1..V : mixed[i] = {"voice", "bg"}
       /\ Len(program_intro) >= Len(mixed)
       /\ Len(program) >= Len(mixed)
       /\ Cardinality(Carrying(program, "voice")) = V

C7_Witness ==
  /\ Composed /\ V > 0
  /\ beginning.some /\ Len(beginning.seg) = 0
  /\ ending.some /\ Len(ending.seg) = 0
  /\ gap_before_ms < 0 /\ crossfade_outro_ms < 0
  /\ Len(program) = V

\* C8 as stated: when B < V the repetition count is the minimum n with
\* n * B >= V, and when B >= V the background is not tiled.
C8_MinimalTiling ==
  Composed
    => /\ B < V => /\ tiled
                   /\ loops_needed * B >= V
                   /\ (loops_needed - 1) * B < V
       /\ B >= V => ~tiled

\* C8 amended: when 0 < B < V the repetition count is floor(V / B) + 1, the
\* minimum n with n * B > V (so the tiling always covers V, with one
\* repetition to spare when B divides V); when B >= V the background is not
\* tiled, only truncated to V.
C8_TilingCount ==
  Composed
    => /\ B < V => /\ tiled /\ B > 0
                   /\ loops_needed * B > V
                   /\ (loops_needed - 1) * B <= V
       /\ B >= V => /\ ~tiled
                    /\ fitted = SubSeq(background, 1, V)
       /\ Len(fitted) = V

C8_Witness ==
  /\ Composed /\ tiled /\ V = 2 /\ B = 1 /\ loops_needed = 3

GapBeforeInserted == Carrying(program_intro, "gap_before") # {}

\* C9 as stated: with an intro, gap_before silence is inserted exactly when
\* crossfade_intro_ms == 0 and gap_before_ms = G > 0, giving
\* intro + G + main mix; never when crossfade_intro_ms > 0; and with no
\* intro the program is the main mix.
C9_GapOnlyAtZeroCrossfade ==
  Composed
    => /\ beginning.some
            => /\ GapBeforeInserted
                    <=> (crossfade_intro_ms = 0 /\ gap_before_ms > 0)
               /\ (crossfade_intro_ms = 0 /\ gap_before_ms > 0)
                    => Len(program_intro) =
                         Len(beginning.seg) + gap_before_ms + Len(mixed)
               /\ crossfade_intro_ms > 0 => ~GapBeforeInserted
       /\ ~beginning.some => program_intro = mixed

\* C9 amended: with an intro, gap_before silence is inserted exactly when
\* crossfade_intro_ms <= 0 and gap_before_ms = G > 0, and then the program is
\* intro, G ms of silence, main mix; whenever crossfade_intro_ms > 0 (also
\* when it is clamped to 0) none is inserted; with no intro the program is
\* the main mix unchanged.
C9_GapBefore ==
  Composed
    => /\ beginning.some
            => /\ GapBeforeInserted
                    <=> (crossfade_intro_ms <= 0 /\ gap_before_ms > 0)
               /\ (crossfade_intro_ms <= 0 /\ gap_before_ms > 0)
                    => /\ program_intro =
                            beginning.seg \o Clip("gap_before", gap_before_ms)
                                          \o mixed
                       /\ Len(program_intro) =
                            Len(beginning.seg) + gap_before_ms + Len(mixed)
               /\ crossfade_intro_ms > 0
                    => /\ ~GapBeforeInserted
                       /\ Len(program_intro) =
                            Len(beginning.seg) + Len(mixed) - cf_intro
       /\ ~beginning.some => program_intro = mixed

C9_Witness ==
  /\ Composed /\ beginning.some /\ Len(beginning.seg) > 0
  /\ crossfade_intro_ms < 0 /\ gap_before_ms > 0 /\ GapBeforeInserted

====
